---- MODULE Spec2Model ----
(***************************************************************************)
(* A model of github.com/konradreiche/pid: the discrete-time PID           *)
(* controller (New, the functional options, Controller.Update), the range  *)
(* clamp (limit.apply) and the Prometheus metrics registration.            *)
(*                                                                         *)
(* float64 is modelled as binary floating point with round-to-nearest,     *)
(* ties-to-even, a significand of Precision bits and an unbounded          *)
(* exponent, together with +Inf, -Inf and NaN.  A finite value is the pair *)
(* <<n, d>> standing for n/d, d a power of two, in lowest terms, so that   *)
(* equal numbers are equal pairs; <<1,0>> is +Inf, <<-1,0>> is -Inf and    *)
(* <<0,0>> is NaN.  Signed zeros are not distinguished and exponent        *)
(* overflow/underflow is not modelled.                                     *)
(***************************************************************************)
EXTENDS Integers, Sequences, FiniteSets, TLC

\* Bits of significand of the modelled float64 (53 in Go; scaled down).
Precision == 5
\* Largest number of options handed to New.
MaxOpts == 2
\* Largest number of Update calls made on one controller.
MaxCalls == 2

----------------------------------------------------------------------------
\* float64 arithmetic

PosInf == <<1, 0>>
NegInf == <<-1, 0>>
NaN == <<0, 0>>

IsNaN(x) == x = NaN
IsInf(x) == x = PosInf \/ x = NegInf
IsFinite(x) == x[2] # 0

Abs(n) == IF n < 0 THEN -n ELSE n
Sgn(n) == IF n < 0 THEN -1 ELSE IF n > 0 THEN 1 ELSE 0

RECURSIVE Pow2(_)
Pow2(k) == IF k <= 0 THEN 1 ELSE 2 * Pow2(k - 1)

\* <<n, d>> (d a power of two) in lowest terms.
RECURSIVE Reduce(_, _)
Reduce(n, d) ==
    IF n = 0 THEN <<0, 1>>
    ELSE IF d > 1 /\ n % 2 = 0 THEN Reduce(n \div 2, d \div 2)
    ELSE <<n, d>>

\* A significand m has MinSig <= m < MaxSig.
MinSig == Pow2(Precision - 1)
MaxSig == Pow2(Precision)

\* <<a', d', e>> with a/d = (a'/d') * 2^e and MinSig <= a'/d' < MaxSig.
RECURSIVE Scale(_, _, _)
Scale(a, d, e) ==
    IF a < MinSig * d THEN Scale(2 * a, d, e - 1)
    ELSE IF a >= MaxSig * d THEN Scale(a, 2 * d, e + 1)
    ELSE <<a, d, e>>

\* sign * m * 2^e as a pair in lowest terms.
Pack(sign, m, e) ==
    IF e >= 0 THEN <<sign * m * Pow2(e), 1>> ELSE Reduce(sign * m, Pow2(-e))

\* The integer nearest to a/d, ties to even.
NearestEven(q, r, d) ==
    IF 2 * r > d \/ (2 * r = d /\ q % 2 = 1) THEN q + 1 ELSE q

\* sign * (s[1]/s[2]) * 2^s[3] with the significand rounded to an integer.
RoundScaled(sign, s) ==
    Pack(sign, NearestEven(s[1] \div s[2], s[1] % s[2], s[2]), s[3])

\* The float64 nearest to the rational n/d (d > 0), ties to even.
Round(n, d) ==
    IF n = 0 THEN <<0, 1>> ELSE RoundScaled(Sgn(n), Scale(Abs(n), d, 0))

\* a literal of the source: the float64 nearest to n/d
Lit(n, d) == Round(n, d)

Neg(x) == <<-x[1], x[2]>>

\* x + y
Add(x, y) ==
    IF IsNaN(x) \/ IsNaN(y) THEN NaN
    ELSE IF IsInf(x) THEN (IF IsInf(y) /\ y # x THEN NaN ELSE x)
    ELSE IF IsInf(y) THEN y
    ELSE Round(x[1] * y[2] + y[1] * x[2], x[2] * y[2])

\* x - y
Sub(x, y) == Add(x, Neg(y))

\* x * y
Mul(x, y) ==
    IF IsNaN(x) \/ IsNaN(y) THEN NaN
    ELSE IF IsInf(x) \/ IsInf(y)
         THEN (IF x[1] = 0 \/ y[1] = 0 THEN NaN ELSE <<Sgn(x[1]) * Sgn(y[1]), 0>>)
    ELSE Round(x[1] * y[1], x[2] * y[2])

\* x / y
Div(x, y) ==
    IF IsNaN(x) \/ IsNaN(y) THEN NaN
    ELSE IF IsInf(x) THEN (IF IsInf(y) THEN NaN
                           ELSE <<x[1] * (IF y[1] < 0 THEN -1 ELSE 1), 0>>)
    ELSE IF IsInf(y) THEN <<0, 1>>
    ELSE IF y[1] = 0 THEN (IF x[1] = 0 THEN NaN ELSE <<Sgn(x[1]), 0>>)
    ELSE Round(Sgn(y[1]) * x[1] * y[2], x[2] * Abs(y[1]))

\* x < y (false when either is NaN)
Lt(x, y) ==
    /\ ~IsNaN(x) /\ ~IsNaN(y)
    /\ IF IsInf(x) \/ IsInf(y)
       THEN x # y /\ (x = NegInf \/ y = PosInf)
       ELSE x[1] * y[2] < y[1] * x[2]

\* x <= y (false when either is NaN)
Le(x, y) == ~IsNaN(x) /\ ~IsNaN(y) /\ ~Lt(y, x)

\* x > y
Gt(x, y) == Lt(y, x)

\* Go's builtin max and min: NaN if either argument is NaN.
Max(x, y) == IF IsNaN(x) \/ IsNaN(y) THEN NaN ELSE IF Lt(x, y) THEN y ELSE x
Min(x, y) == IF IsNaN(x) \/ IsNaN(y) THEN NaN ELSE IF Lt(y, x) THEN y ELSE x

Zero == Lit(0, 1)
One == Lit(1, 1)
Two == Lit(2, 1)
Eight == Lit(8, 1)
SixtyFour == Lit(64, 1)
ZeroPointSix == Lit(6, 10)

----------------------------------------------------------------------------
\* time.Duration, counted here in milliseconds

\* Duration.Seconds: the duration as a floating-point number of seconds
Seconds(delta) == Round(delta, 1000)

----------------------------------------------------------------------------
\* limit

newLimit(lower, upper) == [lower |-> lower, upper |-> upper]

\* apply with the upper bound forgotten
apply_NoUpper(l, value) == Max(l.lower, value)

\* apply with the two bounds put in order first
apply_Ordered(l, value) ==
    Min(Max(Min(l.lower, l.upper), value), Max(l.lower, l.upper))

\* apply with min and max exchanged
apply_Swapped(l, value) == Max(Min(l.lower, value), l.upper)

\* limit.apply: min(max(l.lower, value), l.upper)
apply(l, value) == Min(Max(l.lower, value), l.upper)

----------------------------------------------------------------------------
\* options

Nil == "nil"

\* The options struct New starts from (the zero value for the fields it
\* does not name).
DefaultOptions ==
    [proportionalGain |-> One,
     integralGain |-> Zero,
     derivativeGain |-> Zero,
     outputLimit |-> newLimit(NegInf, PosInf),
     trapezoidalIntegral |-> FALSE,
     lowPassFilterError |-> Zero,
     lowPassFilterDerivative |-> Zero]

\* What calling an Option leaves behind: the options struct o and the error
\* it returns.
Ok(o) == [o |-> o, err |-> Nil]

\* WithStandardForm with the two filter constants exchanged
WithStandardForm_SwappedFilters(proportionalGain, integralTimeConstant, derivativeTimeConstant, o) ==
    Ok([o EXCEPT
          !.proportionalGain = proportionalGain,
          !.integralGain = Div(proportionalGain, integralTimeConstant),
          !.derivativeGain = Mul(proportionalGain, derivativeTimeConstant),
          !.lowPassFilterDerivative = Div(derivativeTimeConstant, SixtyFour),
          !.lowPassFilterError = Div(derivativeTimeConstant, Eight)])

WithStandardForm(proportionalGain, integralTimeConstant, derivativeTimeConstant, o) ==
    Ok([o EXCEPT
          !.proportionalGain = proportionalGain,
          !.integralGain = Div(proportionalGain, integralTimeConstant),
          !.derivativeGain = Mul(proportionalGain, derivativeTimeConstant),
          !.lowPassFilterDerivative = Div(derivativeTimeConstant, Eight),
          !.lowPassFilterError = Div(derivativeTimeConstant, SixtyFour)])

WithZieglerNicholsMethod(ultimateGain, oscillationPeriod, o) ==
    WithStandardForm(Mul(ZeroPointSix, ultimateGain),
                     Div(oscillationPeriod, Two),
                     Div(oscillationPeriod, Eight), o)

WithProportionalGain(proportionalGain, o) ==
    Ok([o EXCEPT !.proportionalGain = proportionalGain])

WithIntegralGain(integralGain, o) ==
    Ok([o EXCEPT !.integralGain = integralGain])

WithDerivativeGain(derivativeGain, o) ==
    Ok([o EXCEPT !.derivativeGain = derivativeGain])

WithLowPassFilterError(lowPassFilterError, o) ==
    Ok([o EXCEPT !.lowPassFilterError = lowPassFilterError])

WithOutputLimit(lower, upper, o) ==
    Ok([o EXCEPT !.outputLimit = newLimit(lower, upper)])

WithTrapezoidalIntegral(enabled, o) ==
    Ok([o EXCEPT !.trapezoidalIntegral = enabled])

\* An Option value is the record [op, args] of the constructor that made it;
\* Call(opt, o) runs the closure on o.  WithOptions(opts, o) is the closure
\* WithOptions(opts...) returns: the options in order, stopping at the
\* first error.
RECURSIVE WithOptions(_, _)
Call(opt, o) ==
    CASE opt.op = "WithStandardForm" ->
           WithStandardForm(opt.args[1], opt.args[2], opt.args[3], o)
      [] opt.op = "WithZieglerNicholsMethod" ->
           WithZieglerNicholsMethod(opt.args[1], opt.args[2], o)
      [] opt.op = "WithProportionalGain" -> WithProportionalGain(opt.args[1], o)
      [] opt.op = "WithIntegralGain" -> WithIntegralGain(opt.args[1], o)
      [] opt.op = "WithDerivativeGain" -> WithDerivativeGain(opt.args[1], o)
      [] opt.op = "WithLowPassFilterError" -> WithLowPassFilterError(opt.args[1], o)
      [] opt.op = "WithOutputLimit" -> WithOutputLimit(opt.args[1], opt.args[2], o)
      [] opt.op = "WithTrapezoidalIntegral" -> WithTrapezoidalIntegral(opt.args[1], o)
      [] opt.op = "WithOptions" -> WithOptions(opt.args, o)

\* Continue that applies the remaining options before returning the error
Continue_ApplyRest(r, rest) ==
    IF r.err # Nil THEN [o |-> WithOptions(rest, r.o).o, err |-> r.err]
    ELSE WithOptions(rest, r.o)

\* The rest of the loop of WithOptions after an option returned r.
Continue(r, rest) == IF r.err # Nil THEN r ELSE WithOptions(rest, r.o)

WithOptions(opts, o) ==
    IF opts = <<>> THEN Ok(o) ELSE Continue(Call(Head(opts), o), Tail(opts))

----------------------------------------------------------------------------
\* Controller

\* IntegralLimit that falls back to the output limit when integralGain <= 0
IntegralLimit_OutputLimit(cfg) ==
    IF Gt(cfg.integralGain, Zero)
    THEN newLimit(Div(cfg.outputLimit.lower, cfg.integralGain),
                  Div(cfg.outputLimit.upper, cfg.integralGain))
    ELSE cfg.outputLimit

\* The limit of the integral New derives from the options.
IntegralLimit(cfg) ==
    IF Gt(cfg.integralGain, Zero)
    THEN newLimit(Div(cfg.outputLimit.lower, cfg.integralGain),
                  Div(cfg.outputLimit.upper, cfg.integralGain))
    ELSE newLimit(NegInf, PosInf)

\* The Controller New returns.
Controller(cfg, integralLimit) ==
    [proportionalGain |-> cfg.proportionalGain,
     integralGain |-> cfg.integralGain,
     derivativeGain |-> cfg.derivativeGain,
     prevControlError |-> Zero,
     integral |-> Zero,
     derivative |-> Zero,
     outputLimit |-> cfg.outputLimit,
     integralLimit |-> integralLimit,
     trapezoidalIntegral |-> cfg.trapezoidalIntegral,
     lowPassFilterError |-> cfg.lowPassFilterError,
     lowPassFilterDerivative |-> cfg.lowPassFilterDerivative]

\* Construct with integralLimit derived before the options are applied
Construct_EarlyLimit(r) ==
    IF r.err # Nil THEN [c |-> Nil, err |-> r.err]
    ELSE [c |-> Controller(r.o, IntegralLimit(DefaultOptions)), err |-> Nil]

\* What New does with r, the outcome of WithOptions(opts...)(&cfg).
Construct(r) ==
    IF r.err # Nil THEN [c |-> Nil, err |-> r.err]
    ELSE [c |-> Controller(r.o, IntegralLimit(r.o)), err |-> Nil]

\* New: [c, err], c the Controller built from the options, or Nil with the
\* error.
New(opts) == Construct(WithOptions(opts, DefaultOptions))

\* updateIntegral that does not add to the accumulator
updateIntegral_NoAccumulate(c, controlError, step) ==
    IF c.trapezoidalIntegral
    THEN Div(Mul(step, Add(controlError, c.prevControlError)), Two)
    ELSE Mul(controlError, step)

updateIntegral(c, controlError, step) ==
    IF c.trapezoidalIntegral
    THEN Add(c.integral,
             Div(Mul(step, Add(controlError, c.prevControlError)), Two))
    ELSE Add(c.integral, Mul(controlError, step))

\* updateDerivative that ignores the previous error
updateDerivative_NoPrev(c, controlError, step) ==
    IF c.lowPassFilterDerivative # Zero
    THEN Div(Add(controlError, Mul(c.lowPassFilterDerivative, c.derivative)),
             Add(step, c.lowPassFilterDerivative))
    ELSE Div(controlError, step)

updateDerivative(c, controlError, step) ==
    IF c.lowPassFilterDerivative # Zero
    THEN Div(Add(Sub(controlError, c.prevControlError),
                 Mul(c.lowPassFilterDerivative, c.derivative)),
             Add(step, c.lowPassFilterDerivative))
    ELSE Div(Sub(controlError, c.prevControlError), step)

\* target - current, low-pass filtered when the filter is on
Filtered(c, raw, step) ==
    IF c.lowPassFilterError # Zero
    THEN Div(Add(Mul(raw, step), Mul(c.prevControlError, c.lowPassFilterError)),
             Add(c.lowPassFilterError, step))
    ELSE raw

\* The error Update works with.
ControlError(c, target, current, step) == Filtered(c, Sub(target, current), step)

\* the weighted sum with the integral added unweighted
WeightedSum_RawIntegral(c, controlError) ==
    Add(Add(Mul(c.proportionalGain, controlError), c.integral),
        Mul(c.derivativeGain, c.derivative))

\* proportionalGain*controlError + integralGain*integral + derivativeGain*derivative
WeightedSum(c, controlError) ==
    Add(Add(Mul(c.proportionalGain, controlError),
            Mul(c.integralGain, c.integral)),
        Mul(c.derivativeGain, c.derivative))

\* Assign with the integral left unclamped
Assign_NoAntiWindup(c, controlError, step) ==
    [c EXCEPT !.integral = updateIntegral(c, controlError, step),
              !.derivative = updateDerivative(c, controlError, step),
              !.prevControlError = controlError]

\* Assign with prevControlError overwritten before the integral and the
\* derivative are computed
Assign_PrevFirst(c, controlError, step) ==
    [c EXCEPT
       !.integral = apply(c.integralLimit,
                          updateIntegral([c EXCEPT !.prevControlError = controlError],
                                         controlError, step)),
       !.derivative = updateDerivative([c EXCEPT !.prevControlError = controlError],
                                       controlError, step),
       !.prevControlError = controlError]

\* Assign with the integral accumulated a second time
Assign_IntegralTwice(c, controlError, step) ==
    [c EXCEPT
       !.integral = apply(c.integralLimit,
                          updateIntegral([c EXCEPT !.integral =
                                              apply(c.integralLimit,
                                                    updateIntegral(c, controlError, step))],
                                         controlError, step)),
       !.derivative = updateDerivative(c, controlError, step),
       !.prevControlError = controlError]

\* The three assignments of Update: integral, derivative, then
\* prevControlError.  updateIntegral and updateDerivative both read the
\* prevControlError of before the call, and updateDerivative does not read
\* integral, so each right-hand side is evaluated on c as the call found it.
Assign(c, controlError, step) ==
    [c EXCEPT !.integral = apply(c.integralLimit,
                                 updateIntegral(c, controlError, step)),
              !.derivative = updateDerivative(c, controlError, step),
              !.prevControlError = controlError]

\* What Update returns, c being the controller after the assignments.
Return(c, controlError) ==
    [c |-> c, out |-> apply(c.outputLimit, WeightedSum(c, controlError))]

\* The body of Update once step and controlError are computed.
Step(c, controlError, step) == Return(Assign(c, controlError, step), controlError)

\* Update: [c, out], the controller after the call and the value returned.
Update(c, target, current, delta) ==
    Step(c, ControlError(c, target, current, Seconds(delta)), Seconds(delta))

----------------------------------------------------------------------------
\* Telemetry: the Prometheus registry, newMetrics and register
\*
\* A collector is [id, kind, desc]: id tells two collectors apart (who
\* created it and for which metric), kind is its Go type and desc its
\* descriptor (fully-qualified name, label names; the help string is empty
\* throughout). A registry is [registered, value]: the collector registered
\* under each metric name, and the value of each child <<id, label value>>
\* that has been written.

nameLabel == "name"
labels == <<nameLabel>>

Desc(name, labelNames) == [name |-> name, labels |-> labelNames]

NewCounterVec(name, labelNames, owner) ==
    [id |-> <<owner, name>>, kind |-> "CounterVec", desc |-> Desc(name, labelNames)]

NewGaugeVec(name, labelNames, owner) ==
    [id |-> <<owner, name>>, kind |-> "GaugeVec", desc |-> Desc(name, labelNames)]

\* the zero value of a collector type: a nil pointer
NilCollector == [id |-> <<0, "nil">>, kind |-> "nil", desc |-> Desc("", <<>>)]

\* prometheus.NewRegistry()
NewRegistry == [registered |-> <<>>, value |-> <<>>]

\* f with key mapped to v
Put(f, key, v) == [k \in DOMAIN f \cup {key} |-> IF k = key THEN v ELSE f[k]]

\* reg.Register(collector): a collector with the same descriptor is already
\* there (AlreadyRegisteredError, carrying it), the name is taken by a
\* descriptor with other label names (another error), or it is added.
Register(reg, collector) ==
    IF collector.desc.name \notin DOMAIN reg.registered
    THEN [err |-> Nil, existing |-> NilCollector,
          reg |-> [reg EXCEPT !.registered = Put(@, collector.desc.name, collector)]]
    ELSE IF reg.registered[collector.desc.name].desc = collector.desc
    THEN [err |-> "AlreadyRegisteredError",
          existing |-> reg.registered[collector.desc.name], reg |-> reg]
    ELSE [err |-> "inconsistent descriptor", existing |-> NilCollector, reg |-> reg]

\* register, after reg.Register(collector) has returned r
registered(collector, r) ==
    IF r.err # Nil
    THEN IF r.err = "AlreadyRegisteredError"
         THEN IF r.existing.kind # collector.kind
              THEN [c |-> NilCollector, err |-> "register: existing collector has type",
                    reg |-> r.reg]
              ELSE [c |-> r.existing, err |-> Nil, reg |-> r.reg]
         ELSE [c |-> NilCollector, err |-> r.err, reg |-> r.reg]
    ELSE [c |-> collector, err |-> Nil, reg |-> r.reg]

register(reg, collector) == registered(collector, Register(reg, collector))

\* newMetrics returning nil, err
NoMetrics(r) == [m |-> Nil, err |-> r.err, reg |-> r.reg]

\* newMetrics with register (the four calls in turn; owner marks the
\* collectors this call creates)
registerControlSignal(m, r) ==
    IF r.err # Nil THEN NoMetrics(r)
    ELSE [m |-> [m EXCEPT !.controlSignal = r.c], err |-> Nil, reg |-> r.reg]

registerCurrent(m, r, owner) ==
    IF r.err # Nil THEN NoMetrics(r)
    ELSE registerControlSignal([m EXCEPT !.current = r.c],
             register(r.reg, NewGaugeVec("pid_control_signal", labels, owner)))

\* registerTarget that goes on to register pid_target once more as current
registerTarget_Twice(m, r, owner) ==
    IF r.err # Nil THEN NoMetrics(r)
    ELSE registerCurrent([m EXCEPT !.target = r.c],
             register(r.reg, NewGaugeVec("pid_target", labels, owner)), owner)

registerTarget(m, r, owner) ==
    IF r.err # Nil THEN NoMetrics(r)
    ELSE registerCurrent([m EXCEPT !.target = r.c],
             register(r.reg, NewGaugeVec("pid_current", labels, owner)), owner)

registerUpdatesTotal(m, r, owner) ==
    IF r.err # Nil THEN NoMetrics(r)
    ELSE registerTarget([m EXCEPT !.updatesTotal = r.c],
             register(r.reg, NewGaugeVec("pid_target", labels, owner)), owner)

\* &metrics{labels: prometheus.Labels{nameLabel: name}}
EmptyMetrics(name) ==
    [updatesTotal |-> NilCollector, target |-> NilCollector,
     current |-> NilCollector, controlSignal |-> NilCollector, labels |-> name]

newMetrics(name, reg, owner) ==
    registerUpdatesTotal(EmptyMetrics(name),
        register(reg, NewCounterVec("pid_updates_total", labels, owner)), owner)

\* The other newMetrics of the repository: it creates the four collectors
\* and hands each to registerer.Register, returning the first error.
NewMetrics(name, owner) ==
    [updatesTotal |-> NewCounterVec("pid_updates_total", labels, owner),
     target |-> NewGaugeVec("pid_target", labels, owner),
     current |-> NewGaugeVec("pid_current", labels, owner),
     controlSignal |-> NewGaugeVec("pid_control_signal", labels, owner),
     labels |-> name]

RECURSIVE registerEach(_, _, _)

registerNext(r, rest, m) ==
    IF r.err # Nil THEN NoMetrics(r) ELSE registerEach(rest, r.reg, m)

registerEach(collectors, registerer, m) ==
    IF collectors = <<>> THEN [m |-> m, err |-> Nil, reg |-> registerer]
    ELSE registerNext(Register(registerer, Head(collectors)), Tail(collectors), m)

registerAll(m, registerer) ==
    registerEach(<<m.updatesTotal, m.target, m.current, m.controlSignal>>,
                 registerer, m)

newMetrics_part_002(name, registerer, owner) ==
    registerAll(NewMetrics(name, owner), registerer)

\* The repository holds both versions of newMetrics, under the same name
\* in the same package: a build has one of them.
Files == {"part_001", "part_002"}

newMetricsOf(file, name, registerer, owner) ==
    IF file = "part_001" THEN newMetrics(name, registerer, owner)
    ELSE newMetrics_part_002(name, registerer, owner)

\* The option WithPrometheusMetrics(name, registerer) applied to o: it
\* calls newMetrics and, unless that fails, stores the result in o.metrics.
Configured(o, r) ==
    IF r.err # Nil THEN [o |-> o, err |-> r.err, reg |-> r.reg]
    ELSE [o |-> Put(o, "metrics", r.m), err |-> Nil, reg |-> r.reg]

WithPrometheusMetrics(name, registerer, owner, file, o) ==
    Configured(o, newMetricsOf(file, name, registerer, owner))

\* New(os[1..place]..., WithPrometheusMetrics(name, registerer),
\* os[place+1..]...): [c, err, reg, cfg], cfg the options struct as New
\* leaves it and reg the registry afterwards. r is what the loop of
\* WithOptions returns from the telemetry option on; the controller has the
\* metrics field copied from the options.
Instrumented(r, reg) ==
    IF r.err # Nil THEN [c |-> Nil, err |-> r.err, reg |-> reg, cfg |-> r.o]
    ELSE [c |-> Put(Controller(r.o, IntegralLimit(r.o)), "metrics", r.o.metrics),
          err |-> Nil, reg |-> reg, cfg |-> r.o]

ConstructWithMetrics(r, rest, name, registerer, owner, file) ==
    IF r.err # Nil
    THEN [c |-> Nil, err |-> r.err, reg |-> registerer, cfg |-> r.o]
    ELSE Instrumented(
             Continue(WithPrometheusMetrics(name, registerer, owner, file, r.o), rest),
             WithPrometheusMetrics(name, registerer, owner, file, r.o).reg)

NewWithMetrics(os, place, name, registerer, owner, file) ==
    ConstructWithMetrics(WithOptions(SubSeq(os, 1, place), DefaultOptions),
                         SubSeq(os, place + 1, Len(os)),
                         name, registerer, owner, file)

\* The value of collector's child for a label value: 0 until written
Value(reg, collector, label) ==
    IF <<collector.id, label>> \in DOMAIN reg.value
    THEN reg.value[<<collector.id, label>>] ELSE Zero

\* What Update reports when c.metrics is attached: updatesTotal.Inc(),
\* then target, current and controlSignal Set, each with c.metrics.labels.
Report(reg, m, target, current, out) ==
    [reg EXCEPT !.value =
        Put(Put(Put(Put(@, <<m.updatesTotal.id, m.labels>>,
                        Add(Value(reg, m.updatesTotal, m.labels), One)),
                    <<m.target.id, m.labels>>, target),
                <<m.current.id, m.labels>>, current),
            <<m.controlSignal.id, m.labels>>, out)]

Reported(u, reg, target, current) ==
    [c |-> u.c, out |-> u.out,
     reg |-> IF "metrics" \in DOMAIN u.c
             THEN Report(reg, u.c.metrics, target, current, u.out) ELSE reg]

\* Update on a controller whose metrics report into reg
UpdateWithMetrics(c, reg, target, current, delta) ==
    Reported(Update(c, target, current, delta), reg, target, current)

\* What gathering the registry shows for a metric name and a label value
Gathered(reg, metric, label) ==
    IF metric \in DOMAIN reg.registered
    THEN Value(reg, reg.registered[metric], label) ELSE Zero

----------------------------------------------------------------------------
\* The callers: the options handed to New and the arguments of Update

Opt(op, args) == [op |-> op, args |-> args]

\* The output limits a caller configures: one around 0, one that excludes 0
\* and one with lower > upper (accepted, never validated).
OutputLimits ==
    { <<Lit(-29, 4), Lit(29, 4)>>, <<Lit(1, 1), Lit(3, 1)>>, <<Lit(3, 1), Lit(1, 1)>> }

Options ==
    { Opt("WithProportionalGain", <<Lit(0, 1)>>),
      Opt("WithIntegralGain", <<Lit(7, 2)>>),
      Opt("WithDerivativeGain", <<Lit(1, 2)>>),
      Opt("WithLowPassFilterError", <<Lit(1, 2)>>),
      Opt("WithTrapezoidalIntegral", <<TRUE>>),
      Opt("WithStandardForm", <<Lit(2, 1), Lit(1, 1), Lit(1, 4)>>),
      Opt("WithZieglerNicholsMethod", <<Lit(5, 1), Lit(2, 1)>>),
      Opt("WithOptions", <<Opt("WithProportionalGain", <<Lit(0, 1)>>),
                           Opt("WithIntegralGain", <<Lit(3, 2)>>)>>) }
    \cup { Opt("WithOutputLimit", l) : l \in OutputLimits }

RECURSIVE SeqsUpTo(_, _)
SeqsUpTo(S, n) ==
    IF n = 0 THEN { <<>> }
    ELSE LET shorter == SeqsUpTo(S, n - 1)
         IN  shorter \cup { Append(q, x) : q \in shorter, x \in S }

OptionLists == SeqsUpTo(Options, MaxOpts)

\* The arguments of an Update call: <<target, current, delta>>, delta in
\* milliseconds and positive.
Arguments ==
    { <<Lit(10, 1), Lit(7, 1), 1000>>, <<Lit(10, 1), Lit(8, 1), 1000>>,
      <<Lit(10, 1), Lit(10, 1), 1000>>, <<Lit(10, 1), Lit(7, 1), 500>> }

\* Arguments of callers that do not keep the step positive.
AnyStepArguments ==
    { <<Lit(10, 1), Lit(7, 1), 1000>>, <<Lit(10, 1), Lit(7, 1), 0>>,
      <<Lit(10, 1), Lit(10, 1), 0>> }

\* The callers of the telemetry: two controllers with the same options, each
\* with a name and the telemetry option at the same place among the others,
\* on one registry, which may already hold a collector of
\* somebody else's: a gauge with the descriptor of pid_updates_total, or a
\* pid_target with other label names.
Controllers == {1, 2}

Names == {"a", "b"}

Registries ==
    { NewRegistry,
      Register(NewRegistry, NewGaugeVec("pid_updates_total", labels, 0)).reg,
      Register(NewRegistry, NewGaugeVec("pid_target", <<"job">>, 0)).reg }

MetricsOptions ==
    { Opt("WithIntegralGain", <<Lit(7, 2)>>),
      Opt("WithOutputLimit", <<Lit(-29, 4), Lit(29, 4)>>) }

MetricsOptionLists == SeqsUpTo(MetricsOptions, MaxOpts)

MetricsArguments ==
    { <<Lit(5, 1), Lit(2, 1), 1000>>, <<Lit(5, 1), Lit(1, 1), 1000>> }

----------------------------------------------------------------------------
\* The program: one call of New, then Update calls on the controller

VARIABLES
    phase,  \* "init" before New, "ready" with a controller, "failed" after an error
    opts,   \* the options New is called with
    c,      \* the Controller New returned (Nil before, and on an error)
    err,    \* the error New returned
    hist,   \* the Update calls made so far: [target, current, delta, e, out]
    file,     \* which newMetrics the build has
    registry, \* the Prometheus registry the controllers with telemetry share
    names,    \* the name each of them is given
    mphase,   \* per controller: "init", "ready" or "failed"
    mc,       \* per controller: the Controller New returned
    merr,     \* per controller: the error New returned
    mhist,    \* per controller: its Update calls and what was gathered
    place     \* how many of opts stand before WithPrometheusMetrics

core == <<phase, opts, c, err, hist>>
telemetry == <<file, registry, names, mphase, mc, merr, mhist, place>>
vars == <<core, telemetry>>

Init ==
    /\ phase = "init"
    /\ opts \in OptionLists
    /\ c = Nil
    /\ err = Nil
    /\ hist = <<>>
    /\ file = "part_001"
    /\ registry = NewRegistry
    /\ names = <<>> /\ mphase = <<>> /\ mc = <<>> /\ merr = <<>> /\ mhist = <<>>
    /\ place = 0

\* controller, err := New(opts...)
CallNew ==
    /\ phase = "init"
    /\ c' = New(opts).c
    /\ err' = New(opts).err
    /\ phase' = IF err' = Nil THEN "ready" ELSE "failed"
    /\ UNCHANGED <<opts, hist, telemetry>>

\* out := controller.Update(target, current, delta)
CallUpdate ==
    /\ phase = "ready"
    /\ Len(hist) < MaxCalls
    /\ \E a \in Arguments :
         /\ c' = Update(c, a[1], a[2], a[3]).c
         /\ hist' = Append(hist, [target |-> a[1], current |-> a[2],
                                  delta |-> a[3], e |-> c'.prevControlError,
                                  out |-> Update(c, a[1], a[2], a[3]).out])
    /\ UNCHANGED <<phase, opts, err, telemetry>>

Next == CallNew \/ CallUpdate

Spec == Init /\ [][Next]_vars

\* The same program with callers that also pass a step of zero, which
\* Update accepts like any other duration
CallUpdateAnyStep ==
    /\ phase = "ready"
    /\ Len(hist) < MaxCalls
    /\ \E a \in AnyStepArguments :
         /\ c' = Update(c, a[1], a[2], a[3]).c
         /\ hist' = Append(hist, [target |-> a[1], current |-> a[2],
                                  delta |-> a[3], e |-> c'.prevControlError,
                                  out |-> Update(c, a[1], a[2], a[3]).out])
    /\ UNCHANGED <<phase, opts, err, telemetry>>

NextAnyStep == CallNew \/ CallUpdateAnyStep

SpecAnyStep == Init /\ [][NextAnyStep]_vars

----------------------------------------------------------------------------
\* The program with telemetry: New(opts..., WithPrometheusMetrics(name,
\* registry)) for one controller, then for the other, and Update calls on
\* either

InitMetrics ==
    /\ phase = "init" /\ c = Nil /\ err = Nil /\ hist = <<>>
    /\ opts \in MetricsOptionLists
    /\ place \in 0..Len(opts)
    /\ file \in Files
    /\ registry \in Registries
    /\ names \in { n \in [Controllers -> Names] : n[1] = "a" }
    /\ mphase = [k \in Controllers |-> "init"]
    /\ mc = [k \in Controllers |-> Nil]
    /\ merr = [k \in Controllers |-> Nil]
    /\ mhist = [k \in Controllers |-> <<>>]

\* controller, err := New(opts..., WithPrometheusMetrics(names[k], registry)),
\* the telemetry option standing after the first place options
CallNewWithMetrics(k) ==
    /\ mphase[k] = "init"
    /\ k = 1 \/ mphase[1] # "init"
    /\ mc' = [mc EXCEPT ![k] = NewWithMetrics(opts, place, names[k], registry, k, file).c]
    /\ merr' = [merr EXCEPT ![k] = NewWithMetrics(opts, place, names[k], registry, k, file).err]
    /\ registry' = NewWithMetrics(opts, place, names[k], registry, k, file).reg
    /\ mphase' = [mphase EXCEPT ![k] = IF merr'[k] = Nil THEN "ready" ELSE "failed"]
    /\ UNCHANGED <<core, file, names, mhist, place>>

\* out := controller.Update(target, current, delta), the updates counter
\* gathered before it and all four metrics after it
CallUpdateWithMetrics(k) ==
    /\ mphase[k] = "ready"
    /\ Len(mhist[k]) < MaxCalls
    /\ \E a \in MetricsArguments :
         /\ mc' = [mc EXCEPT ![k] = UpdateWithMetrics(mc[k], registry, a[1], a[2], a[3]).c]
         /\ registry' = UpdateWithMetrics(mc[k], registry, a[1], a[2], a[3]).reg
         /\ mhist' = [mhist EXCEPT ![k] = Append(@,
               [target |-> a[1], current |-> a[2], delta |-> a[3],
                out |-> UpdateWithMetrics(mc[k], registry, a[1], a[2], a[3]).out,
                updatesBefore |-> Gathered(registry, "pid_updates_total", names[k]),
                updatesTotal |-> Gathered(registry', "pid_updates_total", names[k]),
                gTarget |-> Gathered(registry', "pid_target", names[k]),
                gCurrent |-> Gathered(registry', "pid_current", names[k]),
                gControlSignal |-> Gathered(registry', "pid_control_signal", names[k])])]
    /\ UNCHANGED <<core, file, names, mphase, merr, place>>

NextMetrics == \E k \in Controllers : CallNewWithMetrics(k) \/ CallUpdateWithMetrics(k)

SpecMetrics == InitMetrics /\ [][NextMetrics]_vars

----------------------------------------------------------------------------
\* Properties

Ready == phase = "ready"
Calls == Len(hist)
Last == hist[Len(hist)]

\* l.lower <= v <= l.upper
Within(l, v) == Le(l.lower, v) /\ Le(v, l.upper)

\* C1 as stated: for every configuration New builds, every value Update
\* returned lies within outputLimit (lower <= out <= upper).
C1_EveryConfiguration ==
    Ready => \A i \in 1..Calls : Within(c.outputLimit, hist[i].out)

\* C1, amended: when outputLimit was built with lower <= upper, every value
\* Update returned lies within it, also when the weighted sum lies outside.
C1_OutputWithinLimit ==
    (Ready /\ Le(c.outputLimit.lower, c.outputLimit.upper))
        => \A i \in 1..Calls : Within(c.outputLimit, hist[i].out)

\* The last Update's weighted sum was above the upper bound and the call
\* returned the bound.
C1_Clamped ==
    /\ Ready /\ Calls >= 1
    /\ Le(c.outputLimit.lower, c.outputLimit.upper)
    /\ Gt(WeightedSum(c, c.prevControlError), c.outputLimit.upper)
    /\ Last.out = c.outputLimit.upper

\* A controller with integralGain > 0 and a finite outputLimit [L, U],
\* L <= U, on which Update has been called.
AntiWindupCase ==
    /\ Ready /\ Calls >= 1
    /\ Gt(c.integralGain, Zero)
    /\ IsFinite(c.outputLimit.lower) /\ IsFinite(c.outputLimit.upper)
    /\ Le(c.outputLimit.lower, c.outputLimit.upper)

\* C2 as stated: with integralGain > 0 and a finite outputLimit [L, U],
\* after the Update calls integralGain * integral is within [L, U].
C2_ProductWithinOutputLimit ==
    AntiWindupCase => Within(c.outputLimit, Mul(c.integralGain, c.integral))

\* C2, amended: with integralGain > 0 and a finite outputLimit [L, U], after
\* the Update calls the integral is within integralLimit, the limit with
\* the bounds L / integralGain and U / integralGain as float64 division
\* gives them (integralGain * integral is within [L, U] only up to the
\* rounding of that division and of the product).
C2_IntegralWithinIntegralLimit ==
    AntiWindupCase =>
        /\ c.integralLimit = newLimit(Div(c.outputLimit.lower, c.integralGain),
                                      Div(c.outputLimit.upper, c.integralGain))
        /\ Within(c.integralLimit, c.integral)

\* The integral is saturated at the upper bound of integralLimit.
C2_Saturated ==
    /\ AntiWindupCase
    /\ c.integral = c.integralLimit.upper
    /\ Gt(Add(Mul(Last.e, Seconds(Last.delta)), Zero), c.integralLimit.upper)

\* C3 as stated: with integralGain = 0 and derivativeGain = 0, every Update
\* returns outputLimit.apply(proportionalGain * (target - current)),
\* whatever the calls before it.
C3_EveryConfiguration ==
    (Ready /\ c.integralGain = Zero /\ c.derivativeGain = Zero)
        => \A i \in 1..Calls :
             hist[i].out = apply(c.outputLimit,
                                 Mul(c.proportionalGain,
                                     Sub(hist[i].target, hist[i].current)))

\* C3, amended: with integralGain = 0, derivativeGain = 0 and the error
\* low-pass filter off, every Update returns
\* outputLimit.apply(proportionalGain * (target - current)), whatever the
\* calls before it.
C3_PureProportional ==
    (Ready /\ c.integralGain = Zero /\ c.derivativeGain = Zero
           /\ c.lowPassFilterError = Zero)
        => \A i \in 1..Calls :
             hist[i].out = apply(c.outputLimit,
                                 Mul(c.proportionalGain,
                                     Sub(hist[i].target, hist[i].current)))

\* Two calls in pure proportional mode with different errors and a nonzero
\* second result.
C3_SecondCall ==
    /\ Ready /\ Calls = 2
    /\ c.integralGain = Zero /\ c.derivativeGain = Zero
    /\ c.lowPassFilterError = Zero
    /\ c.proportionalGain # Zero
    /\ hist[1].current # hist[2].current
    /\ hist[2].out # Zero

Unbounded == newLimit(NegInf, PosInf)

\* A controller with proportionalGain = derivativeGain = 0 and rectangular
\* integration, all of whose Update calls had a step of 1 second.
IntegralOnlyCase ==
    /\ Ready
    /\ c.proportionalGain = Zero /\ c.derivativeGain = Zero
    /\ ~c.trapezoidalIntegral
    /\ \A i \in 1..Calls : hist[i].delta = 1000

\* The first two results are integralGain * e1 and integralGain * (e1 + e2),
\* e1 and e2 the control errors of the two calls.
IntegralOnlyResults ==
    /\ Calls >= 1 => hist[1].out = Mul(c.integralGain, hist[1].e)
    /\ Calls >= 2 => hist[2].out = Mul(c.integralGain, Add(hist[1].e, hist[2].e))

\* C4 as stated: on a fresh controller with proportionalGain =
\* derivativeGain = 0 and rectangular integration, two Update calls of step
\* 1 second with errors e1 then e2 return integralGain * e1 and then
\* integralGain * (e1 + e2).
C4_EveryConfiguration == IntegralOnlyCase => IntegralOnlyResults

\* C4, amended: the same, on a controller whose outputLimit is the default
\* (-Inf, +Inf).
C4_AccumulatedIntegral ==
    (IntegralOnlyCase /\ c.outputLimit = Unbounded) => IntegralOnlyResults

\* The test's scenario: integralGain 1.5, target 10, measurements 7 then 8
\* return 4.5 then 7.5.
C4_TwoTicks ==
    /\ IntegralOnlyCase /\ c.outputLimit = Unbounded /\ Calls = 2
    /\ c.integralGain = Lit(3, 2)
    /\ hist[1].e = Lit(3, 1) /\ hist[2].e = Lit(2, 1)
    /\ hist[1].out = Lit(9, 2) /\ hist[2].out = Lit(15, 2)

\* target = current in every Update call made so far
ZeroErrorCalls == Ready /\ \A i \in 1..Calls : hist[i].target = hist[i].current

\* previous error, integral and derivative are 0 and every call returned 0
AtRest ==
    /\ c.prevControlError = Zero /\ c.integral = Zero /\ c.derivative = Zero
    /\ \A i \in 1..Calls : hist[i].out = Zero

\* C5 as stated: if target = current in every Update call made so far, the
\* integral and the derivative are still 0 after each call and each call
\* returned 0.
C5_EveryConfiguration == ZeroErrorCalls => AtRest

\* C5, amended: the same, provided 0 lies within outputLimit
\* (lower <= 0 <= upper).
C5_ZeroErrorSteadyState ==
    (ZeroErrorCalls /\ Within(c.outputLimit, Zero)) => AtRest

\* Two zero-error calls on a controller with a finite output limit around 0
\* and an integral limit derived from it.
C5_TwoZeroErrorCalls ==
    /\ ZeroErrorCalls /\ Calls = 2
    /\ Within(c.outputLimit, Zero) /\ IsFinite(c.outputLimit.upper)
    /\ Gt(c.integralGain, Zero)

\* target - current of the n-th call, 0 for n = 0
RawError(n) == IF n = 0 THEN Zero ELSE Sub(hist[n].target, hist[n].current)

\* the sum of RawError(i) * step_i over the first n calls
RECURSIVE ErrorSum(_)
ErrorSum(n) ==
    IF n = 0 THEN Zero
    ELSE Add(ErrorSum(n - 1), Mul(RawError(n), Seconds(hist[n].delta)))

\* Kp*e_n + Ki*sum_{i<=n}(e_i*step_i) + Kd*(e_n - e_{n-1})/step_n
ClosedForm(n) ==
    Add(Add(Mul(c.proportionalGain, RawError(n)),
            Mul(c.integralGain, ErrorSum(n))),
        Mul(c.derivativeGain,
            Div(Sub(RawError(n), RawError(n - 1)), Seconds(hist[n].delta))))

\* C6: every Update returns outputLimit.apply(proportionalGain * error +
\* integralGain * integral + derivativeGain * derivative) of the error,
\* integral and derivative that call computed; and with no filters, no
\* limits and rectangular integration the n-th result is
\* Kp*e_n + Ki*sum_{i<=n}(e_i*step_i) + Kd*(e_n - e_{n-1})/step_n, e_0 = 0.
C6_WeightedSum ==
    Ready =>
        /\ Calls >= 1 =>
             Last.out = apply(c.outputLimit,
                              Add(Add(Mul(c.proportionalGain, c.prevControlError),
                                      Mul(c.integralGain, c.integral)),
                                  Mul(c.derivativeGain, c.derivative)))
        /\ (/\ c.lowPassFilterError = Zero /\ c.lowPassFilterDerivative = Zero
            /\ c.outputLimit = Unbounded /\ ~c.trapezoidalIntegral)
               => \A n \in 1..Calls : hist[n].out = ClosedForm(n)

\* Two calls with different errors on an unfiltered, unlimited controller
\* with all three gains nonzero.
C6_FullPID ==
    /\ Ready /\ Calls = 2
    /\ c.lowPassFilterError = Zero /\ c.lowPassFilterDerivative = Zero
    /\ c.outputLimit = Unbounded /\ ~c.trapezoidalIntegral
    /\ c.proportionalGain # Zero /\ c.integralGain # Zero /\ c.derivativeGain # Zero
    /\ RawError(1) # RawError(2) /\ RawError(2) # Zero

\* New was called with WithStandardForm(Kp, Ti, Td) alone.
StandardFormAlone == Ready /\ Len(opts) = 1 /\ opts[1].op = "WithStandardForm"

\* C7: WithStandardForm(Kp, Ti, Td) sets proportionalGain = Kp,
\* integralGain = Kp / Ti, derivativeGain = Kp * Td, the derivative filter
\* constant Td / 8 and the error filter constant Td / 64, and the controller
\* built from it alone starts with previous error, integral and derivative
\* 0; for (2.0, 1.0, 0.25) the fields are 2, 2, 0.5, 1/32 and 1/256.
C7_StandardForm ==
    StandardFormAlone =>
        /\ c.proportionalGain = opts[1].args[1]
        /\ c.integralGain = Div(opts[1].args[1], opts[1].args[2])
        /\ c.derivativeGain = Mul(opts[1].args[1], opts[1].args[3])
        /\ c.lowPassFilterDerivative = Div(opts[1].args[3], Lit(8, 1))
        /\ c.lowPassFilterError = Div(opts[1].args[3], Lit(64, 1))
        /\ Calls = 0 =>
             c.prevControlError = Zero /\ c.integral = Zero /\ c.derivative = Zero
        /\ opts[1].args = <<Lit(2, 1), Lit(1, 1), Lit(1, 4)>> =>
             /\ c.proportionalGain = <<2, 1>> /\ c.integralGain = <<2, 1>>
             /\ c.derivativeGain = <<1, 2>>
             /\ c.lowPassFilterDerivative = <<1, 32>>
             /\ c.lowPassFilterError = <<1, 256>>

\* The controller New(WithStandardForm(2.0, 1.0, 0.25)) has just returned.
C7_Example ==
    /\ StandardFormAlone /\ Calls = 0
    /\ opts[1].args = <<Lit(2, 1), Lit(1, 1), Lit(1, 4)>>

\* The options of a list with the lists inside WithOptions spliced in.
RECURSIVE Flat(_)
Flat(os) ==
    IF os = <<>> THEN <<>>
    ELSE IF Head(os).op = "WithOptions" THEN Flat(Head(os).args) \o Flat(Tail(os))
    ELSE <<Head(os)>> \o Flat(Tail(os))

\* The fields of the options an option assigns
Assigns(o) ==
    CASE o.op = "WithProportionalGain" -> {"proportionalGain"}
      [] o.op = "WithIntegralGain" -> {"integralGain"}
      [] o.op = "WithDerivativeGain" -> {"derivativeGain"}
      [] o.op = "WithLowPassFilterError" -> {"lowPassFilterError"}
      [] o.op = "WithOutputLimit" -> {"outputLimit"}
      [] o.op = "WithTrapezoidalIntegral" -> {"trapezoidalIntegral"}
      [] o.op \in {"WithStandardForm", "WithZieglerNicholsMethod"} ->
           {"proportionalGain", "integralGain", "derivativeGain",
            "lowPassFilterDerivative", "lowPassFilterError"}

SetsOutputLimit(o) == o.op = "WithOutputLimit"
SetsIntegralGain(o) == "integralGain" \in Assigns(o)
HoldsNoOutputLimit(o) == \A i \in DOMAIN Flat(<<o>>) : ~SetsOutputLimit(Flat(<<o>>)[i])

Greatest(S) == CHOOSE i \in S : \A j \in S : j <= i

\* What the last option of os that assigns field f leaves in it: the
\* default if there is none.
Final(os, f) ==
    IF \A i \in DOMAIN os : f \notin Assigns(os[i]) THEN DefaultOptions[f]
    ELSE Call(os[Greatest({i \in DOMAIN os : f \in Assigns(os[i])})],
              DefaultOptions).o[f]

\* The lists that differ from os only in where the options setting
\* outputLimit stand among the others.
Reorderings(os) ==
    { q \in { [i \in DOMAIN os |-> os[p[i]]] :
                p \in { f \in [DOMAIN os -> DOMAIN os] :
                          \A i, j \in DOMAIN os : f[i] = f[j] => i = j } } :
        /\ SelectSeq(q, SetsOutputLimit) = SelectSeq(os, SetsOutputLimit)
        /\ SelectSeq(q, HoldsNoOutputLimit) = SelectSeq(os, HoldsNoOutputLimit) }

\* C8: options are applied in order and a later option overwrites an
\* earlier one for the same field, while integralLimit is derived after all
\* of them: it is (outputLimit.lower / integralGain, outputLimit.upper /
\* integralGain) of the final values when integralGain > 0 and (-Inf, +Inf)
\* otherwise, and moving the option that sets outputLimit among the others
\* leaves it the same.
C8_IntegralLimitDerivedLast ==
    (Ready /\ Calls = 0) =>
        /\ \A f \in DOMAIN DefaultOptions : c[f] = Final(Flat(opts), f)
        /\ c.integralLimit =
             IF Gt(Final(Flat(opts), "integralGain"), Zero)
             THEN newLimit(Div(Final(Flat(opts), "outputLimit").lower,
                               Final(Flat(opts), "integralGain")),
                           Div(Final(Flat(opts), "outputLimit").upper,
                               Final(Flat(opts), "integralGain")))
             ELSE newLimit(NegInf, PosInf)
        /\ \A q \in Reorderings(opts) : New(q).c.integralLimit = c.integralLimit

\* New was given the output limit first and the integral gain after it, and
\* the integral limit is finite.
C8_LimitBeforeGain ==
    /\ Ready /\ Calls = 0 /\ Len(opts) = 2
    /\ SetsOutputLimit(opts[1]) /\ SetsIntegralGain(opts[2])
    /\ IsFinite(c.integralLimit.upper)
    /\ Cardinality(Reorderings(opts)) = 2

\* What a controller without telemetry returns for a sequence of calls
RECURSIVE Outputs(_, _)
Outputs(plain, calls) ==
    IF calls = <<>> THEN <<>>
    ELSE <<Update(plain, calls[1].target, calls[1].current, calls[1].delta).out>>
         \o Outputs(Update(plain, calls[1].target, calls[1].current, calls[1].delta).c,
                    Tail(calls))

SecondRegistration ==
    mphase[1] = "ready" /\ mphase[2] # "init" /\ names[1] = names[2]

\* C10: a second registration with the same name against the same registry
\* succeeds and returns handles to the instruments already registered there.
C10_IdempotentRegistration ==
    SecondRegistration =>
        /\ mphase[2] = "ready" /\ merr[2] = Nil
        /\ mc[2].metrics = mc[1].metrics

\* C10 for the newMetrics that goes through register.
C10_IdempotentWithRegister ==
    (SecondRegistration /\ file = "part_001") =>
        /\ mphase[2] = "ready" /\ merr[2] = Nil
        /\ mc[2].metrics = mc[1].metrics

\* The second New has failed with the registry's AlreadyRegisteredError.
C10_SecondRegistrationFails ==
    /\ SecondRegistration /\ file = "part_002"
    /\ mphase[2] = "failed" /\ merr[2] = "AlreadyRegisteredError"

\* The options struct after the options that stand before the telemetry
\* option
BeforeTelemetry == WithOptions(SubSeq(opts, 1, place), DefaultOptions).o

\* C11: when an option signals an error during New (the telemetry option,
\* its registration failing), the options after it are not applied (the
\* options struct is as the options before it left it) and New returns that
\* error together with a nil Controller.
C11_ErrorStopsNew ==
    [][\A k \in Controllers :
         (mphase[k] = "init" /\ mphase'[k] # "init"
            /\ WithPrometheusMetrics(names[k], registry, k, file, BeforeTelemetry).err # Nil)
         => /\ mphase'[k] = "failed"
            /\ mc'[k] = Nil
            /\ merr'[k] = WithPrometheusMetrics(names[k], registry, k, file,
                                                BeforeTelemetry).err
            /\ NewWithMetrics(opts, place, names[k], registry, k, file).cfg
                 = BeforeTelemetry]_vars

\* New has failed on a registration error that is not a duplicate
\* registration, with an option after the telemetry option that would have
\* changed the options struct.
C11_FailedBeforeLastOption ==
    /\ mphase[1] = "failed" /\ merr[1] = "inconsistent descriptor"
    /\ mc[1] = Nil
    /\ place < Len(opts)
    /\ WithOptions(opts, DefaultOptions).o # BeforeTelemetry

\* The step memory of a Controller
StepMemory == {"prevControlError", "integral", "derivative"}

\* Every other field of the controller has the value New gave it.
AsConstructed ==
    Ready => /\ DOMAIN c = DOMAIN New(opts).c
             /\ \A f \in DOMAIN c \ StepMemory : c[f] = New(opts).c[f]

\* A step that is an Update call leaves every field outside the step memory
\* alone and gives each step-memory field the one value computed from the
\* controller before the call and the call's arguments.
UpdateAssignsOnce ==
    (phase = "ready" /\ Len(hist') = Len(hist) + 1) =>
        \A h \in {hist'[Len(hist')]} :
          \A st \in {Seconds(h.delta)} :
            \A e \in {ControlError(c, h.target, h.current, st)} :
              /\ \A f \in DOMAIN c \ StepMemory : c'[f] = c[f]
              /\ c'.prevControlError = e
              /\ c'.integral = apply(c.integralLimit, updateIntegral(c, e, st))
              /\ c'.derivative = updateDerivative(c, e, st)

\* C12: Update changes only the three step-memory fields (previous error,
\* integral, derivative), each taking once per call the value computed from
\* the state before the call; the gains, both filter constants, the
\* integration mode, outputLimit and integralLimit have after any sequence
\* of Update calls the values they had right after construction.
C12_UpdateFrame == []AsConstructed /\ [][UpdateAssignsOnce]_vars

\* Two calls have changed all three step-memory fields of a controller
\* with gains, filters and limits that are not the defaults.
C12_StepMemoryChanged ==
    /\ Ready /\ Calls = 2
    /\ c.prevControlError # Zero /\ c.integral # Zero /\ c.derivative # Zero
    /\ c.integral # hist[1].e
    /\ IsFinite(c.integralLimit.upper) /\ c.lowPassFilterDerivative # Zero

\* The error the last call stored: 0 on a fresh controller
StoredError == IF Calls = 0 THEN Zero ELSE Last.e

\* Between calls the controller holds the error of the last call.
HoldsLastError == Ready => c.prevControlError = StoredError

\* An Update step, call n with error e and step length st, computes the
\* trapezoidal integral step and the derivative from the error of call
\* n - 1; on an unfiltered controller the first derivative is e / st and
\* the second (e2 - e1) / st.
UsesStoredError ==
    (phase = "ready" /\ Len(hist') = Len(hist) + 1) =>
        \A e \in {hist'[Len(hist')].e}, st \in {Seconds(hist'[Len(hist')].delta)},
           e1 \in {Sub(hist'[1].target, hist'[1].current)},
           e2 \in {Sub(hist'[Len(hist')].target, hist'[Len(hist')].current)} :
            /\ c.trapezoidalIntegral =>
                 c'.integral =
                     apply(c.integralLimit,
                           Add(c.integral, Div(Mul(st, Add(e, StoredError)), Two)))
            /\ c'.derivative =
                 IF c.lowPassFilterDerivative # Zero
                 THEN Div(Add(Sub(e, StoredError),
                              Mul(c.lowPassFilterDerivative, c.derivative)),
                          Add(st, c.lowPassFilterDerivative))
                 ELSE Div(Sub(e, StoredError), st)
            /\ (c.lowPassFilterDerivative = Zero /\ c.lowPassFilterError = Zero) =>
                 /\ Len(hist) = 0 => c'.derivative = Div(e1, st)
                 /\ Len(hist) = 1 => c'.derivative = Div(Sub(e2, e1), st)

\* C13: within one Update call the previous error is overwritten only
\* after the integral and the derivative are computed: the trapezoidal
\* integral step and the derivative (filtered or not) of call n use the
\* error stored by call n - 1 (0 on the first call), never the error of
\* call n; on a fresh unfiltered controller the first derivative is
\* error / step and the second is (e2 - e1) / step.
C13_PreviousErrorLast == []HoldsLastError /\ [][UsesStoredError]_vars

\* An unfiltered controller with trapezoidal integration after errors 3
\* and 2 with steps of 1 s: the integral is 1.5 + 2.5 and the derivative
\* 2 - 3.
C13_SecondDerivative ==
    /\ Ready /\ Calls = 2
    /\ c.trapezoidalIntegral
    /\ c.lowPassFilterDerivative = Zero /\ c.lowPassFilterError = Zero
    /\ hist[1].e = Lit(3, 1) /\ hist[2].e = Lit(2, 1)
    /\ hist[1].delta = 1000 /\ hist[2].delta = 1000
    /\ c.integral = Lit(4, 1) /\ c.derivative = Lit(-1, 1)

\* Options that change proportionalGain and derivativeGain, and with lim
\* outputLimit as well
OtherGains ==
    { <<Opt("WithProportionalGain", <<Lit(2, 1)>>)>>,
      <<Opt("WithDerivativeGain", <<Lit(0, 1)>>)>>,
      <<Opt("WithProportionalGain", <<Lit(0, 1)>>),
        Opt("WithDerivativeGain", <<Lit(1, 2)>>)>> }

OtherLimits == { <<Opt("WithOutputLimit", l)>> : l \in OutputLimits }

\* The controllers New builds when the options `more` follow the options
\* that left r behind
TwinsOf(r) ==
    { Construct(Continue(r, more)).c :
        more \in IF Gt(r.o.integralGain, Zero) THEN OtherGains
                 ELSE OtherGains \cup OtherLimits }

\* The controllers that differ from the one New(os...) builds only in
\* proportionalGain or derivativeGain, or, when its integralGain <= 0, only
\* in outputLimit: those of New(os..., more...)
Twins(os) == UNION { TwinsOf(r) : r \in {WithOptions(os, DefaultOptions)} }

\* The controller after a sequence of Update calls
RECURSIVE After(_, _)
After(ctl, calls) ==
    IF calls = <<>> THEN ctl
    ELSE After(Update(ctl, calls[1].target, calls[1].current, calls[1].delta).c,
               Tail(calls))

Memory(ctl) == <<ctl.prevControlError, ctl.integral, ctl.derivative>>

\* A twin holding the step memory of ctl
WithMemory(twin, ctl) ==
    [twin EXCEPT !.prevControlError = ctl.prevControlError,
                 !.integral = ctl.integral,
                 !.derivative = ctl.derivative]

\* As constructed, every twin holds the step memory of the controller
SameStart ==
    (Ready /\ Calls = 0) => \A twin \in Twins(opts) : Memory(twin) = Memory(c)

\* One Update call with the same arguments takes a twin that holds the
\* controller's step memory to the controller's next step memory
SameStep ==
    (phase = "ready" /\ Len(hist') = Len(hist) + 1) =>
        \A h \in {hist'[Len(hist')]}, twin \in Twins(opts) :
          \A t \in {WithMemory(twin, c)} :
            Memory(Update(t, h.target, h.current, h.delta).c) = Memory(c')

\* C14: two controllers that differ only in proportionalGain,
\* derivativeGain, or in outputLimit while integralGain <= 0, fed the same
\* sequence of Update calls, hold the same previous error, integral and
\* derivative after every call: they start with the same step memory, and
\* every call with the same arguments keeps their step memories equal.
C14_StepMemoryIndependent == []SameStart /\ [][SameStep]_vars

\* A controller with integralGain 0 whose integral has grown and whose last
\* result was clamped, and a twin with another output limit that returned
\* something else.
C14_ClampedWithZeroIntegralGain ==
    /\ Ready /\ Calls = 2
    /\ c.integralGain = Zero /\ c.integral # Zero
    /\ Last.out # WeightedSum(c, c.prevControlError)
    /\ \E twin \in Twins(opts) :
         /\ twin.outputLimit # c.outputLimit
         /\ apply(After(twin, hist).outputLimit,
                  WeightedSum(After(twin, hist), c.prevControlError)) # Last.out

\* The output limit was built with lower > upper.
Inverted == Ready /\ Lt(c.outputLimit.upper, c.outputLimit.lower)

\* Values handed to the clamp
ClampValues ==
    { NegInf, Lit(-8, 1), Zero, Lit(1, 1), Lit(2, 1), Lit(3, 1), Lit(8, 1),
      PosInf, NaN }

\* The weighted sum of the last Update call
LastSum ==
    Add(Add(Mul(c.proportionalGain, c.prevControlError),
            Mul(c.integralGain, c.integral)),
        Mul(c.derivativeGain, c.derivative))

\* C15 as stated: New accepts an output limit with lower > upper, its clamp
\* returns upper for every value v, and every Update on such a controller
\* returns exactly upper, whatever the target, measurement, step and
\* history.
C15_AlwaysUpper ==
    Inverted =>
        /\ \A v \in ClampValues : apply(c.outputLimit, v) = c.outputLimit.upper
        /\ \A i \in 1..Calls : hist[i].out = c.outputLimit.upper

\* C15, amended: the clamp returns upper for every value v that is not NaN
\* and NaN for NaN, so every Update on such a controller whose weighted sum
\* is not NaN returns exactly upper, a result below the configured lower
\* bound, and the others return NaN.
C15_UpperUnlessNaN ==
    Inverted =>
        /\ \A v \in ClampValues :
             apply(c.outputLimit, v) = IF IsNaN(v) THEN NaN ELSE c.outputLimit.upper
        /\ Calls >= 1 =>
             Last.out = IF IsNaN(LastSum) THEN NaN ELSE c.outputLimit.upper
        /\ \A i \in 1..Calls :
             \/ IsNaN(hist[i].out)
             \/ hist[i].out = c.outputLimit.upper /\ Lt(hist[i].out, c.outputLimit.lower)

\* On a controller with lower > upper a call with a positive step has
\* returned upper, and a call with a step of zero has returned NaN.
C15_UpperThenNaN ==
    /\ Inverted /\ Calls = 2
    /\ hist[1].delta = 1000 /\ hist[1].out = c.outputLimit.upper
    /\ c.proportionalGain = Zero /\ c.integralGain = Lit(3, 2)
    /\ hist[2].delta = 0 /\ IsNaN(hist[2].out)
====
